---- MODULE Spec2Model ----
(***************************************************************************)
(* Model of ezdxf.render.dim_ordinate.OrdinateDimension: the renderer of   *)
(* ordinate dimensions.  One engine instance is constructed for one        *)
(* DIMENSION record, optionally transforms the record from UCS to WCS/OCS  *)
(* and renders its geometry into a sink (the BLOCK layout).                *)
(*                                                                         *)
(* Numbers: all lengths and coordinates are fixed-point integers counting  *)
(* halves of a drawing unit (the value 5 stands for 2.5), so that an arrow *)
(* size of 2.5 and "width * 0.5" of a whole-unit width are exact.          *)
(* Direction vectors hold the plain signs -1, 0, 1.  Angles are degrees.   *)
(* An optional value (Python None) is the empty tuple <<>>, a present      *)
(* value x of a scalar is <<x>>; points are tuples <<x, y>> or <<x, y, z>>.*)
(***************************************************************************)
EXTENDS Integers, Sequences, FiniteSets, TLC

VARIABLES
    pc,         \* lifecycle of the engine: "new", "built", "rendered", "failed"
    dxf,        \* the DIMENSION record: attribute name -> value, set attributes only
    style,      \* inputs owned by the collaborators (dimstyle, measurement policy, ucs)
    eng,        \* the fields of the OrdinateDimension instance
    sink,       \* the primitives emitted so far, in emission order
    err,        \* the exception raised by the constructor, "" if none
    ntransform  \* number of transform_ucs_to_wcs calls so far

vars == <<pc, dxf, style, eng, sink, err, ntransform>>

----------------------------------------------------------------------------
\* Bounds of the model

\* lateral and short leader offsets are drawn from {-MaxOff, 0, MaxOff}
MaxOff == 3
\* a long leader offset (40 halves = 20 units, the leader of the worked example)
LongOff == 40
\* cap on the number of transform_ucs_to_wcs calls on one engine
MaxTransforms == 2

----------------------------------------------------------------------------
\* Vector primitives (ezdxf.math)

None == <<>>
Some(x) == <<x>>

NULLVEC == <<0, 0, 0>>

Abs(x) == IF x < 0 THEN -x ELSE x

\* Vec2(v): the x and y of any vector, z dropped
Vec2(v) == <<v[1], v[2]>>

\* Vec3(v) of a Vec2: z = 0
Vec3(v) == IF Len(v) = 2 THEN <<v[1], v[2], 0>> ELSE v

Add2(a, b) == <<a[1] + b[1], a[2] + b[2]>>
Sub2(a, b) == <<a[1] - b[1], a[2] - b[2]>>
Mul2(v, s) == <<v[1] * s, v[2] * s>>
Dot2(a, b) == a[1] * b[1] + a[2] * b[2]

Add3(a, b) == <<a[1] + b[1], a[2] + b[2], a[3] + b[3]>>
Mul3(v, s) == <<v[1] * s, v[2] * s, v[3] * s>>
Dot3(a, b) == a[1] * b[1] + a[2] * b[2] + a[3] * b[3]
Cross3(a, b) == <<a[2] * b[3] - a[3] * b[2],
                  a[3] * b[1] - a[1] * b[3],
                  a[1] * b[2] - a[2] * b[1]>>

\* Vec2.magnitude: exact on the axis-aligned vectors the renderer measures,
\* the integer root otherwise
magnitude(v) ==
    IF v[1] = 0 THEN Abs(v[2])
    ELSE IF v[2] = 0 THEN Abs(v[1])
    ELSE CHOOSE r \in 0..(Abs(v[1]) + Abs(v[2])) :
            r * r <= Dot2(v, v) /\ Dot2(v, v) < (r + 1) * (r + 1)

\* Vec2.project: self.normalize() * self.normalize().dot(other); self is a
\* unit vector here, so normalize() leaves it alone
project(u, other) == Mul2(u, Dot2(u, other))

Max(a, b) == IF a >= b THEN a ELSE b

----------------------------------------------------------------------------
\* The DIMENSION record (dimension.dxf)

hasattr(d, a) == a \in DOMAIN d
dxf_get(d, a, default) == IF hasattr(d, a) THEN d[a] ELSE default
dxf_set(d, a, v) == [x \in (DOMAIN d) \cup {a} |-> IF x = a THEN v ELSE d[x]]

\* const.DIM_ORDINATE_TYPE, the x-type bit of dimtype
DIM_ORDINATE_TYPE == 64

BitAnd1(n, bit) == IF (n \div bit) % 2 = 1 THEN bit ELSE 0

\* dim_base.get_required_defpoint: the point as Vec2, or the error raised
Raised == [raised |-> TRUE, value |-> <<0, 0>>]
Returned(v) == [raised |-> FALSE, value |-> v]

get_required_defpoint(d, name) ==
    IF hasattr(d, name) THEN Returned(Vec2(d[name])) ELSE Raised

----------------------------------------------------------------------------
\* The user coordinate system (ezdxf.math.UCS, ezdxf.math.OCS)

X_AXIS == <<1, 0, 0>>
Y_AXIS == <<0, 1, 0>>
Z_AXIS == <<0, 0, 1>>

\* UCS.to_wcs: origin + ux*x + uy*y + uz*z
to_wcs(u, p) ==
    Add3(u.origin, Add3(Mul3(u.ux, p[1]), Add3(Mul3(u.uy, p[2]), Mul3(u.uz, p[3]))))

\* OCS(extrusion): the arbitrary axis algorithm; the axes of the model are
\* unit vectors with integer components, so "abs(c) < 1/64" is "c = 0"
OCS(ez) ==
    LET ax == IF ez[1] = 0 /\ ez[2] = 0 THEN Cross3(Y_AXIS, ez) ELSE Cross3(Z_AXIS, ez)
    IN  [ux |-> ax, uy |-> Cross3(ez, ax), uz |-> ez]

\* OCS.from_wcs
from_wcs(o, p) == <<Dot3(p, o.ux), Dot3(p, o.uy), Dot3(p, o.uz)>>

\* UCS.to_ocs: OCS(self.uz).from_wcs(self.to_wcs(point))
to_ocs(u, p) == from_wcs(OCS(u.uz), to_wcs(u, p))

\* the coordinate systems an engine is built with: none given (the identity),
\* one turned by 90 degrees about z and moved, one tilted (its z axis is -Y)
IdentityUCS == [origin |-> NULLVEC, ux |-> X_AXIS, uy |-> Y_AXIS, uz |-> Z_AXIS]
TurnedUCS == [origin |-> <<2, 1, 0>>, ux |-> Y_AXIS, uy |-> <<-1, 0, 0>>, uz |-> Z_AXIS]
TiltedUCS == [origin |-> <<1, 0, 2>>, ux |-> X_AXIS, uy |-> Z_AXIS, uz |-> <<0, -1, 0>>]
UCSs == {IdentityUCS, TurnedUCS, TiltedUCS}

----------------------------------------------------------------------------
\* Collaborators set up by BaseDimensionRenderer.__init__ (dim_base)

\* the measurement policy before update_measurement: no value, no location;
\* text_rotation is the caller's rotation of the record, None if there is none
base_measurement(d, st) ==
    [value |-> None,
     text |-> "",
     text_location |-> None,
     text_rotation |-> IF hasattr(d, "text_rotation") THEN Some(d["text_rotation"]) ELSE None,
     vertical_placement |-> st.vertical_placement]

\* Measurement.update(value): stores the value and formats the text
measurement_update(m, v, st) == [m EXCEPT !.value = Some(v), !.text = st.text]

\* Measurement.text_vertical_distance()
text_vertical_distance(st) == st.text_vertical_distance

\* BaseDimensionRenderer.init_text_box: width and height of the formatted
\* text; center and angle are not valid yet
init_text_box(m, st) ==
    [width |-> IF m.text = "" THEN 0 ELSE st.text_width,
     center |-> None,
     angle |-> None]

\* Tolerance.update_limits(value)
update_limits(t, v) == [t EXCEPT !.limits = Some(v)]

\* dim_base.compile_mtext(measurement, tol): the MTEXT content
compile_mtext(m, t) == <<"mtext", m.text, t.limits>>

----------------------------------------------------------------------------
\* OrdinateDimension.__init__

\* x_type = bool(dimension.dxf.get("dimtype", 0) & const.DIM_ORDINATE_TYPE)
x_type_of(d) == BitAnd1(dxf_get(d, "dimtype", 0), DIM_ORDINATE_TYPE) # 0

\* the three required definition points, in the order they are fetched
origin_of(d) == get_required_defpoint(d, "defpoint")
\* a fetch of the feature location that falls back to the null vector, as
\* from_ucs fetches its points
feature_location_defaulted(d) == Returned(Vec2(dxf_get(d, "defpoint2", NULLVEC)))
feature_location_of(d) == get_required_defpoint(d, "defpoint2")
end_of_leader_of(d) == get_required_defpoint(d, "defpoint3")

\* main direction vectors for x-type
\* the sign test "<= 0.0" in place of "< 0.0"
x_type_direction_zero_negative(lo) == <<IF lo[1] <= 0 THEN -1 ELSE 1, 0>>
x_type_direction(lo) == <<IF lo[1] < 0 THEN -1 ELSE 1, 0>>
x_type_dir_ortho(lo) == <<0, IF lo[2] < 0 THEN -1 ELSE 1>>

\* if not x_type: direction, dir_ortho = dir_ortho, direction
direction_of(xt, lo) == IF xt THEN x_type_direction(lo) ELSE x_type_dir_ortho(lo)
dir_ortho_of(xt, lo) == IF xt THEN x_type_dir_ortho(lo) ELSE x_type_direction(lo)

\* the signed component of the distance, without abs()
measured_distance_signed(origin, feature_location, xt) ==
    LET distance == Sub2(feature_location, origin)
    IN  IF xt THEN distance[1] ELSE distance[2]

\* update_measurement: the value handed to measurement.update
measured_distance(origin, feature_location, xt) ==
    LET distance == Sub2(feature_location, origin)
    IN  IF xt THEN Abs(distance[1]) ELSE Abs(distance[2])

\* width * 0.5; widths are whole drawing units, so the half is exact
Half(w) == w \div 2

\* the x-type offset pointing right instead of left
text_offset_vec_right(xt, offset) == Mul2(IF xt THEN <<1, 0>> ELSE <<0, 1>>, offset)

\* setup_text_location: the offset vector of the text
text_offset_vec(xt, offset) == Mul2(IF xt THEN <<-1, 0>> ELSE <<0, 1>>, offset)

\* setup_text_location: the location of the text
text_location_of(end_of_leader, dir_ortho, width, offset_vec) ==
    Add2(Add2(end_of_leader, Mul2(dir_ortho, Half(width))), offset_vec)

\* "if not rotation" in place of "if rotation is None": a rotation of 0 counts
\* as not set
text_rotation_of_falsy(rotation, xt) ==
    IF rotation = None \/ rotation = Some(0)
    THEN (IF xt THEN Some(90) ELSE Some(0)) ELSE rotation

\* setup_text_location: the rotation of the text, given the one set so far
text_rotation_of(rotation, xt) ==
    IF rotation = None THEN (IF xt THEN Some(90) ELSE Some(0)) ELSE rotation

\* setup_text_location as a whole: the measurement with location and rotation
setup_text_location(m, end_of_leader, dir_ortho, xt, text_box, st) ==
    LET offset == text_vertical_distance(st)
        offset_vec == text_offset_vec(xt, offset)
    IN  [m EXCEPT
            !.text_location = text_location_of(end_of_leader, dir_ortho,
                                               text_box.width, offset_vec),
            !.text_rotation = text_rotation_of(m.text_rotation, xt)]

\* the fields of an engine that does not exist (yet, or at all: the
\* constructor raised)
NoEngine ==
    [origin |-> None, feature_location |-> None, end_of_leader |-> None,
     leader_offset |-> None, x_type |-> FALSE,
     direction |-> None, dir_ortho |-> None,
     measurement |-> None, text_box |-> None, geometry_text_box |-> None,
     tol |-> None]

\* the engine after the statements of __init__ that follow the three fetches
built_engine(d, st, origin, feature_location, end_of_leader) ==
    LET leader_offset == Sub2(end_of_leader, feature_location)
        xt == x_type_of(d)
        direction == direction_of(xt, leader_offset)
        dir_ortho == dir_ortho_of(xt, leader_offset)
        m1 == measurement_update(base_measurement(d, st),
                                 measured_distance(origin, feature_location, xt), st)
        tol0 == [has_limits |-> st.has_limits, limits |-> None]
        tol1 == IF tol0.has_limits THEN update_limits(tol0, m1.value[1]) ELSE tol0
        box0 == init_text_box(m1, st)
        m2 == setup_text_location(m1, end_of_leader, dir_ortho, xt, box0, st)
        box1 == [box0 EXCEPT !.center = m2.text_location, !.angle = m2.text_rotation]
    IN  [origin |-> origin, feature_location |-> feature_location,
         end_of_leader |-> end_of_leader, leader_offset |-> leader_offset,
         x_type |-> xt, direction |-> direction, dir_ortho |-> dir_ortho,
         measurement |-> m2, text_box |-> box1, geometry_text_box |-> box1,
         tol |-> tol1]

\* __init__: a missing definition point raises before anything else happens;
\* otherwise the engine is built and the text location is written back into
\* the record
Construct ==
    /\ pc = "new"
    /\ LET o == origin_of(dxf)
           f == feature_location_of(dxf)
           e == end_of_leader_of(dxf)
       IN  IF o.raised \/ f.raised \/ e.raised
           THEN /\ pc' = "failed"
                /\ err' = "MissingGeometryError"
                /\ UNCHANGED <<dxf, eng>>
           ELSE LET built == built_engine(dxf, style, o.value, f.value, e.value)
                IN  /\ pc' = "built"
                    /\ eng' = built
                    /\ dxf' = dxf_set(dxf, "text_midpoint",
                                      Vec3(built.measurement.text_location))
                    /\ err' = err
    /\ UNCHANGED <<style, sink, ntransform>>

----------------------------------------------------------------------------
\* OrdinateDimension.transform_ucs_to_wcs

\* the text midpoint mapped like the points, by to_wcs
ucs_mappings_all_wcs ==
    <<<<"defpoint", "to_wcs">>, <<"defpoint2", "to_wcs">>,
      <<"defpoint3", "to_wcs">>, <<"text_midpoint", "to_wcs">>>>

\* the mapping of the coordinate system used for each record attribute, in
\* the order of the four from_ucs calls
ucs_mappings ==
    <<<<"defpoint", "to_wcs">>, <<"defpoint2", "to_wcs">>,
      <<"defpoint3", "to_wcs">>, <<"text_midpoint", "to_ocs">>>>

ucs_func(u, func, point) == IF func = "to_wcs" THEN to_wcs(u, point) ELSE to_ocs(u, point)

\* from_ucs(attr, func): dxf.set(attr, func(dxf.get(attr, NULLVEC)))
from_ucs(d, u, attr, func) == dxf_set(d, attr, ucs_func(u, func, dxf_get(d, attr, NULLVEC)))

RECURSIVE from_ucs_all(_, _, _)
from_ucs_all(d, u, calls) ==
    IF calls = <<>> THEN d
    ELSE from_ucs_all(from_ucs(d, u, Head(calls)[1], Head(calls)[2]), u, Tail(calls))

TransformUcsToWcs ==
    /\ pc \in {"built", "rendered"}
    /\ ntransform < MaxTransforms
    /\ dxf' = from_ucs_all(dxf, style.ucs, ucs_mappings)
    /\ ntransform' = ntransform + 1
    /\ UNCHANGED <<pc, style, eng, sink, err>>

----------------------------------------------------------------------------
\* OrdinateDimension.add_extension_line and render

\* self.add_line(start, end, dxfattribs=attribs)
add_line(start, end, attribs) ==
    [kind |-> "line", start |-> start, end |-> end, attribs |-> attribs]

\* self.add_text(dim_text, pos=pos, rotation=rotation, dxfattribs=attribs)
add_text(text, pos, rotation, attribs) ==
    [kind |-> "text", text |-> text, pos |-> pos, rotation |-> rotation,
     attribs |-> attribs]

\* self.geometry.add_defpoints(points)
add_defpoints(points) == [kind |-> "defpoints", points |-> points]

\* super().render(block): the base class binds the target layout
base_render == [kind |-> "base"]

\* leg_size = self.arrows.arrow_size * 2.0
leg_size_of(st) == st.arrow_size * 2

\* d0 = distance from the feature location to the 1st upward junction
d0_of(e, st) == magnitude(project(e.dir_ortho, e.leader_offset)) - 2 * leg_size_of(st)

\* the end of the first segment without the max(leg_size, d0) clamp
end0_of_unclamped(e, st) == Add2(e.feature_location, Mul2(e.dir_ortho, d0_of(e, st)))

\* the start of the last segment stepped back along direction, not dir_ortho
start1_of_along_direction(e, st) ==
    Sub2(e.end_of_leader, Mul2(e.direction, leg_size_of(st)))

\* the end of the last segment extended whatever the vertical placement is
end1_of_always_extended(e, st) ==
    Add2(e.end_of_leader, Mul2(e.dir_ortho, e.text_box.width))

start0_of(e, st) == Add2(e.feature_location, Mul2(e.dir_ortho, st.ext_offset))
end0_of(e, st) == Add2(e.feature_location, Mul2(e.dir_ortho, Max(leg_size_of(st), d0_of(e, st))))
start1_of(e, st) == Sub2(e.end_of_leader, Mul2(e.dir_ortho, leg_size_of(st)))
end1_of(e, st) ==
    IF e.measurement.vertical_placement # 0
    THEN Add2(e.end_of_leader, Mul2(e.dir_ortho, e.text_box.width))
    ELSE e.end_of_leader

\* the three add_line calls, in call order
add_extension_line(e, st) ==
    LET attribs == "extension_line_1"
    IN  <<add_line(start0_of(e, st), end0_of(e, st), attribs),
          add_line(end0_of(e, st), start1_of(e, st), attribs),
          add_line(start1_of(e, st), end1_of(e, st), attribs)>>

\* add_measurement_text, called only for a non-empty text
add_measurement_text(e, st) ==
    IF e.measurement.text # ""
    THEN <<add_text(IF st.supports_dxf_r2000
                    THEN compile_mtext(e.measurement, e.tol)
                    ELSE <<"text", e.measurement.text>>,
                    e.measurement.text_location, e.measurement.text_rotation,
                    "measurement_text")>>
    ELSE <<>>

get_defpoints(e) == <<e.origin, e.feature_location, e.end_of_leader>>

\* add_defpoints indented into the "if measurement.text:" branch
render_defpoints_with_text(e, st) ==
    <<base_render>> \o add_extension_line(e, st) \o
        (IF e.measurement.text # ""
         THEN add_measurement_text(e, st) \o <<add_defpoints(get_defpoints(e))>>
         ELSE <<>>)

\* everything render hands to the sink, in order
render(e, st) ==
    <<base_render>> \o add_extension_line(e, st) \o add_measurement_text(e, st)
        \o <<add_defpoints(get_defpoints(e))>>

Render ==
    /\ pc = "built"
    /\ sink' = sink \o render(eng, style)
    /\ pc' = "rendered"
    /\ UNCHANGED <<dxf, style, eng, err, ntransform>>

----------------------------------------------------------------------------
\* Inputs: the DIMENSION record and the style an engine is constructed from

RequiredPoints == {"defpoint", "defpoint2", "defpoint3"}

Offsets == {-MaxOff, 0, MaxOff}
LongOffsets == {-LongOff, -MaxOff, 0, MaxOff, LongOff}

Origins == {<<0, 0, 0>>, <<3, -2, 1>>}
Features == {<<20, 0, 0>>, <<-1, 1, 0>>}

\* ends of leader around a feature location: beside it, far above or below
\* it, far left or right of it, and on it
Leaders(f) ==
    {<<f[1] + dx, f[2] + dy, 0>> : dx \in Offsets, dy \in LongOffsets}
        \cup {<<f[1] + dy, f[2] + dx, 0>> : dx \in Offsets, dy \in LongOffsets}

\* a record with the given points; dimtype 6 is an ordinate dimension, 70
\* one with the x-type bit, and dimtype may be unset
DimTypes == {6, 70}
WithDimType(d) == {d} \cup {dxf_set(d, "dimtype", t) : t \in DimTypes}

PointRecord(o, f, e) == [a \in RequiredPoints |->
                            IF a = "defpoint" THEN o ELSE IF a = "defpoint2" THEN f ELSE e]
Restrict(d, A) == [a \in A |-> d[a]]

\* the worked example: origin (0,0), feature (10,0), end of leader (10,20)
ExampleRecord == PointRecord(<<0, 0, 0>>, <<20, 0, 0>>, <<20, 40, 0>>)
SkewRecord == PointRecord(<<3, -2, 1>>, <<-1, 1, 0>>, <<-4, -2, 0>>)

DefaultStyle ==
    [arrow_size |-> 5, ext_offset |-> 0, vertical_placement |-> 0,
     text |-> "<>", text_width |-> 4, text_vertical_distance |-> 1,
     ucs |-> IdentityUCS, supports_dxf_r2000 |-> TRUE, has_limits |-> FALSE]

ArrowSizes == {0, 1, 5}
ExtOffsets == {-1, 0, 1}
Rotations == {0, 45}

\* records lacking at least one required point, with and without a text
\* midpoint stored earlier
MissingInput ==
    /\ \E A \in (SUBSET RequiredPoints) \ {RequiredPoints} :
       \E base \in {Restrict(ExampleRecord, A), Restrict(SkewRecord, A)} :
       \E d \in WithDimType(base) :
            dxf \in {d, dxf_set(d, "text_midpoint", <<7, 7, 0>>)}
    /\ style \in {DefaultStyle, [DefaultStyle EXCEPT !.ucs = TiltedUCS]}

\* complete records over a range of geometries, arrow sizes and offsets
GeometryInput ==
    /\ \E o \in Origins, f \in Features :
       \E e \in Leaders(f) :
            dxf \in WithDimType(PointRecord(o, f, e))
    /\ \E a \in ArrowSizes, x \in ExtOffsets, vp \in {0, 1}, t \in {"", "<>"},
          vd \in {0, 1} :
            style = [DefaultStyle EXCEPT !.arrow_size = a, !.ext_offset = x,
                                         !.vertical_placement = vp, !.text = t,
                                         !.text_vertical_distance = vd]

\* complete records over the range of style settings
StyleInput ==
    /\ \E base \in {ExampleRecord, SkewRecord} :
       \E d \in WithDimType(base) :
            dxf \in {d} \cup {dxf_set(d, "text_rotation", r) : r \in Rotations}
    /\ \E vp \in {0, 1}, t \in {"", "<>"}, u \in UCSs, r2000 \in BOOLEAN,
          lim \in BOOLEAN :
            style = [DefaultStyle EXCEPT !.vertical_placement = vp, !.text = t,
                                         !.ucs = u, !.supports_dxf_r2000 = r2000,
                                         !.has_limits = lim]

Init ==
    /\ pc = "new"
    /\ eng = NoEngine
    /\ sink = <<>>
    /\ err = ""
    /\ ntransform = 0
    /\ (MissingInput \/ GeometryInput \/ StyleInput)

Next == Construct \/ TransformUcsToWcs \/ Render

Spec == Init /\ [][Next]_vars

----------------------------------------------------------------------------
\* Properties

Built == pc \in {"built", "rendered"}
Missing(d) == \E a \in RequiredPoints : ~hasattr(d, a)

\* C1: constructing an engine for a record that lacks any of defpoint,
\* defpoint2, defpoint3 fails with the missing-geometry error; the step that
\* fails emits nothing to the sink and leaves the record (its text_midpoint
\* included) as it was, and nothing is emitted or written afterwards either.
C1_MissingPointFailsFirst ==
    [][/\ (pc = "new" /\ Missing(dxf)) =>
            (pc' = "failed" /\ err' = "MissingGeometryError"
             /\ sink' = <<>> /\ dxf' = dxf /\ eng' = NoEngine)
       /\ pc = "failed" => (pc' = "failed" /\ sink' = <<>> /\ dxf' = dxf)
       /\ (pc = "new" /\ ~Missing(dxf)) => (pc' = "built" /\ err' = "")]_vars

\* C1 witness: only the feature location is missing, the record held a text
\* midpoint, and construction has failed
C1_Witness ==
    /\ pc = "failed"
    /\ err = "MissingGeometryError"
    /\ DOMAIN dxf \cap RequiredPoints = {"defpoint", "defpoint3"}
    /\ hasattr(dxf, "text_midpoint")

\* C2: the value handed to measurement.update is >= 0 and is
\* |feature_location.x - origin.x| for x-type, |feature_location.y - origin.y|
\* otherwise; the end of the leader does not enter it.
C2_MeasurementAbsolute ==
    Built =>
        LET v == eng.measurement.value[1]
            k == IF eng.x_type THEN 1 ELSE 2
            d == eng.feature_location[k] - eng.origin[k]
        IN  /\ v >= 0
            /\ v \in {d, -d}

\* C2 witness: an x-type dimension whose feature lies left of the origin
C2_Witness ==
    /\ Built
    /\ eng.x_type
    /\ eng.feature_location[1] < eng.origin[1]
    /\ eng.measurement.value[1] = eng.origin[1] - eng.feature_location[1]

\* C3: after construction direction is (+1,0) for x-type when
\* leader_offset.x >= 0 and (-1,0) when it is < 0, and (0,+1) resp. (0,-1) by
\* the sign of leader_offset.y for y-type; direction and dir_ortho are
\* axis-aligned unit vectors, one along X and one along Y; zero counts as
\* positive.
C3_DirectionSigns ==
    Built =>
        LET sx == IF eng.leader_offset[1] >= 0 THEN 1 ELSE -1
            sy == IF eng.leader_offset[2] >= 0 THEN 1 ELSE -1
        IN  /\ eng.x_type => (eng.direction = <<sx, 0>> /\ eng.dir_ortho = <<0, sy>>)
            /\ ~eng.x_type => (eng.direction = <<0, sy>> /\ eng.dir_ortho = <<sx, 0>>)
            /\ Dot2(eng.direction, eng.dir_ortho) = 0
            /\ Dot2(eng.direction, eng.direction) = 1
            /\ Dot2(eng.dir_ortho, eng.dir_ortho) = 1

\* C3 witness: an x-type dimension with a leader straight above the feature
\* (zero x offset) gets the positive x direction
C3_Witness ==
    /\ Built
    /\ eng.x_type
    /\ eng.leader_offset[1] = 0
    /\ eng.leader_offset[2] < 0
    /\ eng.direction = <<1, 0>>
    /\ eng.dir_ortho = <<0, -1>>

\* C4: after setup_text_location the text rotation is 90 for x-type and 0
\* for y-type when the caller supplied none, and the caller's rotation
\* unchanged when one was supplied, a supplied 0 included.
C4_TextRotationDefault ==
    Built =>
        IF hasattr(dxf, "text_rotation")
        THEN eng.measurement.text_rotation = Some(dxf["text_rotation"])
        ELSE eng.measurement.text_rotation = Some(IF eng.x_type THEN 90 ELSE 0)

\* C4 witness: an x-type dimension with a caller rotation of 0 keeps 0
C4_Witness ==
    /\ Built
    /\ eng.x_type
    /\ hasattr(dxf, "text_rotation")
    /\ dxf["text_rotation"] = 0
    /\ eng.measurement.text_rotation = Some(0)

\* the emitted primitives by position: sink[1] is the base render, sink[2],
\* sink[3], sink[4] are the extension-line segments A, B, C
SegA == sink[2]
SegB == sink[3]
SegC == sink[4]
SegLength(seg) == magnitude(Sub2(seg.end, seg.start))
leg_size == 2 * style.arrow_size

\* signed distance of p from q along the unit vector u, and across it
Along(p, q, u) == Dot2(Sub2(p, q), u)
Across(p, q, u) == Sub2(p, q)[1] * u[2] - Sub2(p, q)[2] * u[1]

\* C5 as stated: the length of Segment A is never less than leg_size, for
\* every extension-line offset.
C5_SegmentALengthAtLeastLeg ==
    pc = "rendered" => SegLength(SegA) >= leg_size

\* C5 amended: the end of Segment A is never closer to feature_location than
\* leg_size (it lies max(leg_size, d0) along dir_ortho), and Segment A starts
\* at the extension-line offset; so its length is at least leg_size minus the
\* offset, and at least leg_size when the offset is 0.
C5_SegmentAEndAtLeastLeg ==
    pc = "rendered" =>
        /\ Along(SegA.end, eng.feature_location, eng.dir_ortho) >= leg_size
        /\ Across(SegA.end, eng.feature_location, eng.dir_ortho) = 0
        /\ SegA.start = Add2(eng.feature_location, Mul2(eng.dir_ortho, style.ext_offset))
        /\ SegLength(SegA) >= leg_size - style.ext_offset
        /\ style.ext_offset = 0 => SegLength(SegA) >= leg_size

\* C5 witness: feature and end of leader coincide, the clamp decides, and
\* with an offset of 1 Segment A is shorter than leg_size
C5_Witness ==
    /\ pc = "rendered"
    /\ eng.leader_offset = <<0, 0>>
    /\ style.arrow_size = 5
    /\ style.ext_offset = 1
    /\ Along(SegA.end, eng.feature_location, eng.dir_ortho) = leg_size
    /\ SegLength(SegA) = leg_size - 1

\* C6: render emits the base render first, then exactly three line
\* segments, then one text primitive iff measurement.text is not empty, and
\* last the definition points [origin, feature_location, end_of_leader],
\* with or without text; nothing is emitted before render.
C6_RenderOrder ==
    /\ pc # "rendered" => sink = <<>>
    /\ pc = "rendered" =>
        LET n == Len(sink)
            hasText == eng.measurement.text # ""
        IN  /\ n = IF hasText THEN 6 ELSE 5
            /\ sink[1].kind = "base"
            /\ \A i \in 2..4 : sink[i].kind = "line"
            /\ hasText => /\ sink[5].kind = "text"
                          /\ sink[5].pos = eng.measurement.text_location
                          /\ sink[5].rotation = eng.measurement.text_rotation
            /\ sink[n].kind = "defpoints"
            /\ sink[n].points = <<eng.origin, eng.feature_location, eng.end_of_leader>>

\* C6 witness: rendered with an empty text: no text primitive, and the
\* definition points are registered all the same
C6_Witness ==
    /\ pc = "rendered"
    /\ eng.measurement.text = ""
    /\ Len(sink) = 5
    /\ sink[5].kind = "defpoints"

\* C7: when construction completes, text_location is end_of_leader moved by
\* half the text width along dir_ortho and by the vertical distance to the
\* left (x-type) or upwards (y-type); text_box.center, the record's
\* text_midpoint and text_location agree, and text_box.angle is text_rotation.
C7_TextLocation ==
    (pc = "built" /\ ntransform = 0) =>
        LET loc == eng.measurement.text_location
            d == Sub2(loc, eng.end_of_leader)
            w == eng.text_box.width
            vd == style.text_vertical_distance
            sx == IF eng.leader_offset[1] < 0 THEN -1 ELSE 1
            sy == IF eng.leader_offset[2] < 0 THEN -1 ELSE 1
        IN  /\ eng.x_type => (d[1] = -vd /\ 2 * d[2] = sy * w)
            /\ ~eng.x_type => (2 * d[1] = sx * w /\ d[2] = vd)
            /\ eng.text_box.center = loc
            /\ hasattr(dxf, "text_midpoint")
            /\ dxf["text_midpoint"] = <<loc[1], loc[2], 0>>
            /\ eng.text_box.angle = eng.measurement.text_rotation
            /\ eng.geometry_text_box = eng.text_box

\* C7 witness: an x-type dimension with a text of width 4, a vertical
\* distance of 1 and a leader running downwards
C7_Witness ==
    /\ pc = "built"
    /\ ntransform = 0
    /\ eng.x_type
    /\ eng.text_box.width = 4
    /\ style.text_vertical_distance = 1
    /\ eng.leader_offset[2] < 0
    /\ eng.measurement.text_location = Add2(eng.end_of_leader, <<-1, -2>>)

\* all six end points of the three segments
EndPoints == {SegA.start, SegA.end, SegB.start, SegB.end, SegC.start, SegC.end}

\* C8 as stated: the three segments are collinear for every placement: all
\* six end points lie on the line through feature_location along dir_ortho.
C8_AllCollinear ==
    pc = "rendered" =>
        \A p \in EndPoints : Across(p, eng.feature_location, eng.dir_ortho) = 0

\* C8 amended: Segment A lies on the line through feature_location along
\* dir_ortho and Segment C on the parallel line through end_of_leader, with
\* Segment B joining the two; all six end points lie on one line through
\* feature_location along dir_ortho exactly when leader_offset has no
\* component along direction.
C8_ParallelSegments ==
    pc = "rendered" =>
        /\ \A p \in {SegA.start, SegA.end} :
                Across(p, eng.feature_location, eng.dir_ortho) = 0
        /\ \A p \in {SegB.end, SegC.start, SegC.end} :
                Across(p, eng.end_of_leader, eng.dir_ortho) = 0
        /\ SegB.start = SegA.end
        /\ (\A p \in EndPoints : Across(p, eng.feature_location, eng.dir_ortho) = 0)
                <=> Dot2(eng.leader_offset, eng.direction) = 0

\* C8 witness: a y-type dimension whose end of leader is off the line
\* through the feature location; Segment C is off that line by the same
\* amount
C8_Witness ==
    /\ pc = "rendered"
    /\ ~eng.x_type
    /\ style.arrow_size = 5
    /\ Dot2(eng.leader_offset, eng.direction) = MaxOff
    /\ Across(SegC.start, eng.feature_location, eng.dir_ortho) # 0
    /\ Across(SegC.start, eng.feature_location, eng.dir_ortho)
            = Across(SegC.end, eng.feature_location, eng.dir_ortho)

\* the inputs of the worked example, in halves of a unit: origin (0,0),
\* feature (10,0), end of leader (10,20), x-type, arrow size 2.5, offset 0
IsExample ==
    /\ eng.origin = <<0, 0>>
    /\ eng.feature_location = <<20, 0>>
    /\ eng.end_of_leader = <<20, 40>>
    /\ eng.x_type
    /\ style.arrow_size = 5
    /\ style.ext_offset = 0

\* C9: the segments form a chain emitted in the order A, B, C: B starts at
\* the end of A, B ends at end_of_leader - dir_ortho*leg_size, C starts
\* there, C ends at end_of_leader for vertical placement 0 and at
\* end_of_leader + dir_ortho*text_box.width otherwise; all three carry the
\* same attributes.  In the worked example A runs (10,0)->(10,10) and C ends
\* at (10,20).
C9_SegmentChain ==
    pc = "rendered" =>
        /\ SegB.start = SegA.end
        /\ SegB.end = Sub2(eng.end_of_leader, Mul2(eng.dir_ortho, leg_size))
        /\ SegC.start = SegB.end
        /\ SegC.end = IF style.vertical_placement = 0
                      THEN eng.end_of_leader
                      ELSE Add2(eng.end_of_leader, Mul2(eng.dir_ortho, eng.text_box.width))
        /\ SegA.attribs = SegB.attribs
        /\ SegB.attribs = SegC.attribs
        /\ IsExample =>
                /\ SegA.start = <<20, 0>>
                /\ SegA.end = <<20, 20>>
                /\ style.vertical_placement = 0 => SegC.end = <<20, 40>>

\* C9 witness: the worked example, rendered with the default vertical
\* placement and a text of non-zero width
C9_Witness ==
    /\ pc = "rendered"
    /\ IsExample
    /\ style.vertical_placement = 0
    /\ eng.text_box.width > 0
    /\ SegA.end = <<20, 20>>
    /\ SegC.end = <<20, 40>>

\* the record attribute a after one more transform_ucs_to_wcs
Mapped(d, a) ==
    LET old == IF hasattr(d, a) THEN d[a] ELSE NULLVEC
    IN  IF a = "text_midpoint" THEN to_ocs(style.ucs, old) ELSE to_wcs(style.ucs, old)

\* C10: transform_ucs_to_wcs replaces defpoint, defpoint2, defpoint3 by
\* to_wcs of their values and text_midpoint by to_ocs of its value, and
\* changes no other attribute, no field of the engine and nothing in the
\* sink; every call maps once more, and no other step of a built engine
\* touches the record, so nothing maps back.
C10_TransformOneWay ==
    [][/\ ntransform' # ntransform =>
            /\ ntransform' = ntransform + 1
            /\ DOMAIN dxf' = DOMAIN dxf \cup RequiredPoints \cup {"text_midpoint"}
            /\ \A a \in RequiredPoints \cup {"text_midpoint"} : dxf'[a] = Mapped(dxf, a)
            /\ \A a \in DOMAIN dxf \ (RequiredPoints \cup {"text_midpoint"}) :
                    dxf'[a] = dxf[a]
            /\ eng' = eng /\ sink' = sink /\ pc' = pc /\ style' = style
       /\ (ntransform' = ntransform /\ pc # "new") => dxf' = dxf]_vars

\* C10 witness: two transforms under the tilted coordinate system, where
\* to_wcs and to_ocs differ: the text midpoint went through to_ocs twice
C10_Witness ==
    /\ ntransform = 2
    /\ style.ucs = TiltedUCS
    /\ LET tm == Vec3(eng.measurement.text_location)
       IN  /\ dxf["text_midpoint"] = to_ocs(TiltedUCS, to_ocs(TiltedUCS, tm))
           /\ dxf["text_midpoint"] # to_wcs(TiltedUCS, to_wcs(TiltedUCS, tm))
           /\ dxf["text_midpoint"] # tm

====
